---------------------------- MODULE Spec2Model ----------------------------
(***************************************************************************)
(* Model of the mushaf marker pipeline: generate_data.py (marker           *)
(* detection, calibration, normalisation) and generate_verse_data.py (the  *)
(* same calibration followed by the verse highlight geometry).             *)
(*                                                                         *)
(* Raw coordinates are integer pixels.  Normalised coordinates are         *)
(* integers in units of 1e-5 (ONE = 1.0), so that LINE_HEIGHT / 4 is       *)
(* exact; values rounded to 4 decimals are multiples of 10.                *)
(* A point is <<x, y>> (Python p[0], p[1]); a marker row is                *)
(* <<surah, verse, page, x, y>>.                                           *)
(***************************************************************************)
EXTENDS Integers, Sequences, FiniteSets, Bags, TLC

\* ------------------------------------------------------------------ bounds
\* Pages processed by the page loop (the program processes 604).
NumPages == 2
\* Longest authoritative verse list of a page.
MaxVerses == 2
\* Most candidate locations a detector run can report on a page.
MaxDet == 1
\* Longest point list given to group_and_sort on its own.
MaxPoints == 3
\* Largest row-grouping threshold given to group_and_sort on its own.
MaxG == 2
\* Longest marker sequence given to the geometry engine on its own.
MaxMarkers == 2

\* ------------------------------------------------------- program constants
ONE == 100000
LINE_HEIGHT == 5500
TOP_FIRST_LINE_Y == LINE_HEIGHT \div 2
LEFT_EDGE == 5000
RIGHT_EDGE == 95000

\* Page classes: pages 1-2 and pages 3-604.
FIRST_W == 486
FIRST_H == 738
FIRST_OFF == 26
STD_W == 645
STD_H == 1000
STD_OFF == 21
\* Template heights (template_1 is 52x52, template_2 is 42x42).
TEMPLATE_1_H == 52
TEMPLATE_2_H == 42

\* Thresholds in units of 1e-4.
DefaultThresh(page) == IF page <= 2 THEN 4000 ELSE 2685
\* [i/1000 for i in range(200, 500, 5)]
SweepThresholds == [k \in 1..60 |-> 2000 + 50 * (k - 1)]
\* for p2 in [30, 28, 25]
HoughParams == <<30, 28, 25>>

Abs(n) == IF n < 0 THEN -n ELSE n
Min2(a, b) == IF a <= b THEN a ELSE b
Max2(a, b) == IF a >= b THEN a ELSE b

\* ------------------------------------------------- group_and_sort (34-46)
\* sorted(points, key=lambda p: p[1]): stable, ascending y.
RECURSIVE InsertByY(_, _)
InsertByY(s, p) ==
  IF s = <<>> THEN <<p>>
  ELSE IF s[Len(s)][2] <= p[2] THEN Append(s, p)
  ELSE Append(InsertByY(SubSeq(s, 1, Len(s) - 1), p), s[Len(s)])

RECURSIVE SortByY(_)
SortByY(s) ==
  IF s = <<>> THEN <<>>
  ELSE InsertByY(SortByY(SubSeq(s, 1, Len(s) - 1)), s[Len(s)])

\* group.sort(key=lambda p: -p[0]): stable, descending x.
RECURSIVE InsertByNegX(_, _)
InsertByNegX(s, p) ==
  IF s = <<>> THEN <<p>>
  ELSE IF -s[Len(s)][1] <= -p[1] THEN Append(s, p)
  ELSE Append(InsertByNegX(SubSeq(s, 1, Len(s) - 1), p), s[Len(s)])

RECURSIVE SortByNegX(_)
SortByNegX(s) ==
  IF s = <<>> THEN <<>>
  ELSE InsertByNegX(SortByNegX(SubSeq(s, 1, Len(s) - 1)), s[Len(s)])

\* Membership tested against the point added last (a chained grouping).
JoinsPrev(point, current_group, g) ==
  current_group = <<>> \/ Abs(point[2] - current_group[Len(current_group)][2]) <= g

\* The membership test of line 38, against the group's first point.
JoinsGroup(point, current_group, g) ==
  current_group = <<>> \/ Abs(point[2] - current_group[1][2]) <= g

\* The scan of lines 37-42 from position i, with the groups closed so far
\* and the group being filled; returns <<groups, current_group>>.
RECURSIVE GroupScan(_, _, _, _, _)
GroupScan(pts, i, groups, current_group, g) ==
  IF i > Len(pts) THEN <<groups, current_group>>
  ELSE IF JoinsGroup(pts[i], current_group, g)
       THEN GroupScan(pts, i + 1, groups, Append(current_group, pts[i]), g)
       ELSE GroupScan(pts, i + 1, Append(groups, current_group), <<pts[i]>>, g)

\* The scan's result without the group still being filled.
DropLastGroup(scan) == scan[1]

\* Line 43: the last group is appended after the scan.
CloseGroups(scan) == Append(scan[1], scan[2])

\* The row groups after lines 36-45: each sorted right-to-left.
RowGroups(points, g) ==
  LET groups == CloseGroups(GroupScan(SortByY(points), 1, <<>>, <<>>, g))
  IN  [k \in 1..Len(groups) |-> SortByNegX(groups[k])]

RECURSIVE Flatten(_)
Flatten(groups) ==
  IF groups = <<>> THEN <<>>
  ELSE Flatten(SubSeq(groups, 1, Len(groups) - 1)) \o groups[Len(groups)]

group_and_sort(points, group_y_threshold) ==
  Flatten(RowGroups(points, group_y_threshold))

\* ----------------------------------------------------------- the detectors
\* Where a marker can be found on a raster: template top-left positions that
\* fit both page classes.  The second lies 24 px below the first: one text
\* row for template_1 (threshold 26), two rows for template_2 (threshold 21).
CandidatePoints ==
  << <<100, 100>>, <<300, 124>>, <<200, 400>>, <<50, 600>>, <<400, 610>> >>

\* The point lists a detector may hand to group_and_sort: the first n
\* candidates in scan order, for every count n a run can report.
Distinct == {SubSeq(CandidatePoints, 1, n) : n \in 0..MaxDet}

TemplateH(page_num) == IF page_num <= 2 THEN TEMPLATE_1_H ELSE TEMPLATE_2_H

\* The results a run of detect_ayas_template can return.  The correlation
\* and the suppression are not modelled: how many candidates survive at a
\* threshold is left open.  An unreadable raster gives [] (lines 54-55).
detect_ayas_template(page_num, threshold, readable) ==
  IF ~readable THEN {<<>>}
  ELSE {group_and_sort(d, TemplateH(page_num) \div 2) : d \in Distinct}

\* The results a run of detect_ayas_hough can return ([] when the raster is
\* unreadable or no circle is found); rows are grouped by template_2's height.
detect_ayas_hough(page_num, param2, readable) ==
  IF ~readable THEN {<<>>}
  ELSE {group_and_sort(d, TEMPLATE_2_H \div 2) : d \in Distinct}

\* ------------------------------------------------- normalize_coordinates
\* round(n / d, 4) in units of 1e-5, for d > 0.  n * 10000 / d is never
\* half-way between two integers for d in {486, 738, 645, 1000}.
Round4Div(n, d) == 10 * ((2 * n * 10000 + d) \div (2 * d))

normalize_full_offset(page, x, y) ==
  IF page <= 2
  THEN <<Round4Div(x + 2 * FIRST_OFF, FIRST_W), Round4Div(y + 2 * FIRST_OFF, FIRST_H)>>
  ELSE <<Round4Div(x + 2 * STD_OFF, STD_W), Round4Div(y + 2 * STD_OFF, STD_H)>>

normalize_coordinates(page, x, y) ==
  IF page <= 2
  THEN <<Round4Div(x + FIRST_OFF, FIRST_W), Round4Div(y + FIRST_OFF, FIRST_H)>>
  ELSE <<Round4Div(x + STD_OFF, STD_W), Round4Div(y + STD_OFF, STD_H)>>

\* ------------------------------------------------------------------- state
VARIABLES
  script,        \* which main() runs: "generate_data" or "generate_verse_data"
  auth_verses,   \* page_verses.json: page -> list of <<surah, verse>>
  page,          \* the page loop's variable
  pc,            \* "default", "sweep", "hough", "write", "boxes", "done", "call"
  k,             \* position in the sweep list, or in the Hough parameter list
  readable,      \* whether cv2.imread reads the current page's raster
  best_coords,   \* main()'s best_coords
  best_diff,     \* main()'s best_diff
  output_rows,   \* main()'s output_rows
  issues,        \* main()'s issues
  csv_rows,      \* the rows written to data.csv
  verse_boxes,   \* the rows written to data_verse.csv
  hist,          \* what the detector runs of the page last started returned
  kept,          \* per finished page, the marker list the calibrator kept
  exact,         \* per finished page, whether some run matched the count
  fn_in,         \* argument of a function applied on its own
  fn_out         \* its result

vars == <<script, auth_verses, page, pc, k, readable, best_coords, best_diff,
          output_rows, issues, csv_rows, verse_boxes, hist, kept, exact,
          fn_in, fn_out>>

pipeVars == <<script, auth_verses, page, pc, k, readable, best_coords,
              best_diff, output_rows, issues, csv_rows, verse_boxes, hist,
              kept, exact>>

\* A page's authoritative list: n verses of one surah.
VerseList(p, n) == [i \in 1..n |-> <<p, i>>]

AuthChoices ==
  {[p \in 1..NumPages |-> VerseList(p, n[p])] : n \in [1..NumPages -> 0..MaxVerses]}

\* The record of the detector runs of one page: how many ran, which run was
\* the first to return the expected count (0: none), how many were Hough
\* runs, and the least |count - expected| over all runs and over the
\* template runs (-1: no run yet).
NoRuns ==
  [runs |-> 0, first_exact |-> 0, template_runs |-> 0, hough_runs |-> 0,
   min_all |-> -1, min_template |-> -1]

LeastOf(m, d) == IF m = -1 \/ d < m THEN d ELSE m

Observe(h, kind, d) ==
  [runs |-> h.runs + 1,
   first_exact |-> IF h.first_exact = 0 /\ d = 0 THEN h.runs + 1 ELSE h.first_exact,
   template_runs |-> h.template_runs + (IF kind = "template" THEN 1 ELSE 0),
   hough_runs |-> h.hough_runs + (IF kind = "hough" THEN 1 ELSE 0),
   min_all |-> LeastOf(h.min_all, d),
   min_template |-> IF kind = "template" THEN LeastOf(h.min_template, d)
                    ELSE h.min_template]

\* ------------------------------------------------------------ row emission
\* for (surah, verse), (x, y) in zip(expected_verses, coords): raw rows.
ZipRows(expected_verses, coords, p) ==
  [i \in 1..Min2(Len(expected_verses), Len(coords)) |->
     <<expected_verses[i][1], expected_verses[i][2], p, coords[i][1], coords[i][2]>>]

\* generate_data.py 161-168: one row per expected verse, the verses beyond
\* the kept markers at the last kept marker, or at (0, 0) when none is kept.
IssueRowsNoFill(expected_verses, coords, p) == ZipRows(expected_verses, coords, p)

IssueRows(expected_verses, coords, p) ==
  [i \in 1..Len(expected_verses) |->
     LET xy == IF i <= Len(coords) THEN coords[i]
               ELSE IF coords # <<>> THEN coords[Len(coords)]
               ELSE <<0, 0>>
     IN  <<expected_verses[i][1], expected_verses[i][2], p, xy[1], xy[2]>>]

\* generate_verse_data.py 249-254: the zipped rows, normalised, then a row
\* at (0.0, 0.0) for every verse beyond the kept markers.
VerseRows(expected_verses, coords, p) ==
  [i \in 1..Len(expected_verses) |->
     LET n == IF i <= Len(coords)
              THEN normalize_coordinates(p, coords[i][1], coords[i][2])
              ELSE <<0, 0>>
     IN  <<expected_verses[i][1], expected_verses[i][2], p, n[1], n[2]>>]

\* The tests of the threshold sweep (lines 139 and 141) and of the Hough
\* loop (line 152).
SweepImproves(d, diff) == d < diff

SweepNeverBreaks(d) == FALSE

SweepBreaks(d) == d = 0

HoughKeepsDiff(diff, matched) == diff

\* A fallback that also keeps a Hough list closer to the expected count.
HoughClosest(coords, hcoords, expected_count) ==
  IF Abs(Len(hcoords) - expected_count) < Abs(Len(coords) - expected_count)
  THEN hcoords ELSE coords

\* Lines 152-153: a Hough list replaces best_coords only on a match.
HoughCoords(coords, hcoords, expected_count) ==
  IF Len(hcoords) = expected_count THEN hcoords ELSE coords

HoughDiff(diff, matched) == IF matched THEN 0 ELSE diff

\* Where the page loop goes after page p.
AfterPage(p) ==
  IF p < NumPages THEN "default"
  ELSE IF script = "generate_data" THEN "write" ELSE "boxes"

\* The page is finished with marker list c kept; best_coords and best_diff
\* are dead until the next page assigns them, and are reset.
FinishPage(c, h) ==
  /\ hist' = h
  /\ kept' = Append(kept, c)
  /\ exact' = Append(exact, h.first_exact # 0)
  /\ pc' = AfterPage(page)
  /\ page' = page + 1
  /\ k' = 0
  /\ best_coords' = <<>>
  /\ best_diff' = 0

\* --------------------------------------------------- generate_data.py main
\* Lines 122-135: the default-threshold run of a page, and the rows of a
\* page that matches at once.
DataDefault ==
  /\ script = "generate_data" /\ pc = "default"
  /\ \E r \in BOOLEAN :
       \E coords \in detect_ayas_template(page, DefaultThresh(page), r) :
         LET expected_verses == auth_verses[page]
             expected_count == Len(expected_verses)
             d == Abs(Len(coords) - expected_count)
             h == Observe(NoRuns, "template", d)
         IN  /\ readable' = r
             /\ IF Len(coords) = expected_count
                THEN /\ output_rows' = output_rows \o ZipRows(expected_verses, coords, page)
                     /\ FinishPage(coords, h)
                ELSE /\ best_coords' = coords
                     /\ best_diff' = d
                     /\ hist' = h
                     /\ pc' = "sweep"
                     /\ k' = 1
                     /\ UNCHANGED <<page, output_rows, kept, exact>>
  /\ UNCHANGED <<script, auth_verses, issues, csv_rows, verse_boxes, fn_in, fn_out>>

\* Lines 136-147: one threshold of the sweep; after the loop, the rows of a
\* page the sweep matched.
DataSweep ==
  /\ script = "generate_data" /\ pc = "sweep"
  /\ \E c \in detect_ayas_template(page, SweepThresholds[k], readable) :
       LET expected_verses == auth_verses[page]
           expected_count == Len(expected_verses)
           d == Abs(Len(c) - expected_count)
           better == SweepImproves(d, best_diff)
           new_diff == IF better THEN d ELSE best_diff
           new_coords == IF better THEN c ELSE best_coords
           over == (better /\ SweepBreaks(d)) \/ k = Len(SweepThresholds)
           h == Observe(hist, "template", d)
       IN  IF ~over
           THEN /\ best_coords' = new_coords
                /\ best_diff' = new_diff
                /\ hist' = h
                /\ k' = k + 1
                /\ UNCHANGED <<page, pc, output_rows, kept, exact>>
           ELSE IF new_diff = 0
           THEN /\ output_rows' = output_rows \o ZipRows(expected_verses, new_coords, page)
                /\ FinishPage(new_coords, h)
           ELSE /\ best_coords' = new_coords
                /\ best_diff' = new_diff
                /\ hist' = h
                /\ pc' = "hough"
                /\ k' = 1
                /\ UNCHANGED <<page, output_rows, kept, exact>>
  /\ UNCHANGED <<script, auth_verses, readable, issues, csv_rows, verse_boxes,
                 fn_in, fn_out>>

\* Lines 150-168: one parameter of the Hough fallback; after the loop, the
\* page's rows, and its issue entry when nothing matched.
DataHough ==
  /\ script = "generate_data" /\ pc = "hough"
  /\ \E hcoords \in detect_ayas_hough(page, HoughParams[k], readable) :
       LET expected_verses == auth_verses[page]
           expected_count == Len(expected_verses)
           matched == Len(hcoords) = expected_count
           new_diff == HoughDiff(best_diff, matched)
           new_coords == HoughCoords(best_coords, hcoords, expected_count)
           over == matched \/ k = Len(HoughParams)
           h == Observe(hist, "hough", Abs(Len(hcoords) - expected_count))
       IN  IF ~over
           THEN /\ hist' = h
                /\ k' = k + 1
                /\ UNCHANGED <<page, pc, best_coords, best_diff, output_rows,
                               issues, kept, exact>>
           ELSE IF new_diff = 0
           THEN /\ output_rows' = output_rows \o ZipRows(expected_verses, new_coords, page)
                /\ FinishPage(new_coords, h)
                /\ UNCHANGED issues
           ELSE /\ issues' = Append(issues, <<page, expected_count, Len(new_coords)>>)
                /\ output_rows' = output_rows \o IssueRows(expected_verses, new_coords, page)
                /\ FinishPage(new_coords, h)
  /\ UNCHANGED <<script, auth_verses, readable, csv_rows, verse_boxes, fn_in, fn_out>>

\* Lines 174-180: data.csv, every row normalised.
DataWrite ==
  /\ script = "generate_data" /\ pc = "write"
  /\ csv_rows' = [i \in 1..Len(output_rows) |->
                    LET r == output_rows[i]
                        n == normalize_coordinates(r[3], r[4], r[5])
                    IN  <<r[1], r[2], r[3], n[1], n[2]>>]
  /\ pc' = "done"
  /\ UNCHANGED <<script, auth_verses, page, k, readable, best_coords, best_diff,
                 output_rows, issues, verse_boxes, hist, kept, exact, fn_in, fn_out>>

\* ------------------------------------------- the verse highlight geometry
\* The geometry computes in binary floating point.  Where two compared
\* values are equal in exact arithmetic, the rounding errors of the float
\* operations decide the comparison; where a value lies half-way between
\* two 4-decimal values, they decide the direction of round().  fp names
\* the outcome: fp.cmp, a tied "<" is true; fp.up, a tied round() goes up.
FpChoices == [cmp : BOOLEAN, up : BOOLEAN]

Lt(a, b, tie) == a < b \/ (a = b /\ tie)

\* The bound of both stepping loops (lines 118 and 135).
LoopBoundFullLine(y) == y - LINE_HEIGHT

LoopBound(y) == y - LINE_HEIGHT \div 2

\* Line 127: abs(prev_y - y) < LINE_HEIGHT, the verse ends on the line
\* of the previous marker.
SameLineHalf(prev_y, y, fp) == Lt(Abs(prev_y - y), LINE_HEIGHT \div 2, fp.cmp)

SameLine(prev_y, y, fp) == Lt(Abs(prev_y - y), LINE_HEIGHT, fp.cmp)

\* Lines 120 and 137: current_y += LINE_HEIGHT.
NextLineTwice(current_y) == current_y + 2 * LINE_HEIGHT

NextLine(current_y) == current_y + LINE_HEIGHT

\* while current_y < y - LINE_HEIGHT / 2: a full-width row, one line down.
RECURSIVE StepRows(_, _, _)
StepRows(current_y, y, fp) ==
  IF Lt(current_y, LoopBound(y), fp.cmp)
  THEN <<<<current_y, LEFT_EDGE, RIGHT_EDGE>>>> \o StepRows(NextLine(current_y), y, fp)
  ELSE <<>>

\* Lines 97-139; verse_index counts from 1 here.  The rows are
\* <<y_center, start_x, end_x>>.
get_verse_highlight_rows(page_data, verse_index, fp) ==
  IF verse_index < 1 \/ verse_index > Len(page_data) THEN <<>>
  ELSE
    LET p == page_data[verse_index][3]
        x == page_data[verse_index][4]
        y == page_data[verse_index][5]
        has_prev == verse_index > 1
        prev_verse == page_data[verse_index - 1]
    IN  IF ~has_prev \/ prev_verse[3] # p
        THEN IF y <= TOP_FIRST_LINE_Y + LINE_HEIGHT \div 2
             THEN <<<<y, x, RIGHT_EDGE>>>>
             ELSE StepRows(TOP_FIRST_LINE_Y + LINE_HEIGHT \div 4, y, fp)
                    \o <<<<y, x, RIGHT_EDGE>>>>
        ELSE LET prev_x == prev_verse[4]
                 prev_y == prev_verse[5]
             IN  IF SameLine(prev_y, y, fp)
                 THEN <<<<y, x, prev_x>>>>
                 ELSE <<<<prev_y, LEFT_EDGE, prev_x>>>>
                        \o StepRows(prev_y + LINE_HEIGHT, y, fp)
                        \o <<<<y, x, RIGHT_EDGE>>>>

\* max(0, min(1, v))
NoClamp(v) == v

Clamp(v) == Max2(0, Min2(ONE, v))

\* round(v, 4)
Round4(v, up) ==
  LET r == v % 10
  IN  IF r < 5 THEN v - r
      ELSE IF r > 5 THEN v - r + 10
      ELSE IF up THEN v + 5 ELSE v - 5

\* Lines 162-171: the segments of one verse,
\* <<surah, verse, page, segment, x_start, y_start, x_end, y_end>>.
Segments(page_data, verse_index, fp) ==
  LET highlight_rows == get_verse_highlight_rows(page_data, verse_index, fp)
      surah == page_data[verse_index][1]
      verse_num == page_data[verse_index][2]
      p == page_data[verse_index][3]
  IN  [seg \in 1..Len(highlight_rows) |->
         LET y_center == highlight_rows[seg][1]
             start_x == highlight_rows[seg][2]
             end_x == highlight_rows[seg][3]
             y_lo == y_center - LINE_HEIGHT \div 2
             y_hi == y_center + LINE_HEIGHT \div 2
             x_lo == Min2(start_x, end_x)
             x_hi == Max2(start_x, end_x)
         IN  <<surah, verse_num, p, seg - 1,
               Round4(Clamp(x_lo), fp.up), Round4(Clamp(y_lo), fp.up),
               Round4(Clamp(x_hi), fp.up), Round4(Clamp(y_hi), fp.up)>>]

\* Lines 151-156: by_page, as the list of pages in order of first
\* appearance and each page's rows in input order.
RECURSIVE PagesInOrder(_)
PagesInOrder(rows) ==
  IF rows = <<>> THEN <<>>
  ELSE LET before == PagesInOrder(SubSeq(rows, 1, Len(rows) - 1))
           p == rows[Len(rows)][3]
       IN  IF \E i \in 1..Len(before) : before[i] = p THEN before
           ELSE Append(before, p)

PageData(rows, p) == SelectSeq(rows, LAMBDA r : r[3] = p)

RECURSIVE PageSegments(_, _, _)
PageSegments(page_data, n, fp) ==
  IF n = 0 THEN <<>>
  ELSE PageSegments(page_data, n - 1, fp) \o Segments(page_data, n, fp)

RECURSIVE BoxesOfPages(_, _, _)
BoxesOfPages(rows, pages, fp) ==
  IF pages = <<>> THEN <<>>
  ELSE BoxesOfPages(rows, SubSeq(pages, 1, Len(pages) - 1), fp)
         \o LET page_data == PageData(rows, pages[Len(pages)])
            IN  PageSegments(page_data, Len(page_data), fp)

\* Lines 142-172.
verse_boxes_from_app_logic(rows, fp) ==
  BoxesOfPages(rows, PagesInOrder(rows), fp)

\* --------------------------------------------- generate_verse_data.py main
\* Lines 225-231 and, for a page that matches at once, 249-254.
VerseDefault ==
  /\ script = "generate_verse_data" /\ pc = "default"
  /\ \E r \in BOOLEAN :
       \E coords \in detect_ayas_template(page, DefaultThresh(page), r) :
         LET expected_verses == auth_verses[page]
             expected_count == Len(expected_verses)
             d == Abs(Len(coords) - expected_count)
             h == Observe(NoRuns, "template", d)
         IN  /\ readable' = r
             /\ IF Len(coords) # expected_count
                THEN /\ best_coords' = coords
                     /\ best_diff' = d
                     /\ hist' = h
                     /\ pc' = "sweep"
                     /\ k' = 1
                     /\ UNCHANGED <<page, output_rows, kept, exact>>
                ELSE /\ output_rows' = output_rows \o VerseRows(expected_verses, coords, page)
                     /\ FinishPage(coords, h)
  /\ UNCHANGED <<script, auth_verses, issues, csv_rows, verse_boxes, fn_in, fn_out>>

\* Lines 232-239: one threshold of the sweep; when the sweep ends on a
\* match, lines 245-254.
VerseSweep ==
  /\ script = "generate_verse_data" /\ pc = "sweep"
  /\ \E c \in detect_ayas_template(page, SweepThresholds[k], readable) :
       LET expected_verses == auth_verses[page]
           expected_count == Len(expected_verses)
           d == Abs(Len(c) - expected_count)
           better == SweepImproves(d, best_diff)
           new_diff == IF better THEN d ELSE best_diff
           new_coords == IF better THEN c ELSE best_coords
           over == (better /\ SweepBreaks(d)) \/ k = Len(SweepThresholds)
           h == Observe(hist, "template", d)
       IN  IF ~over
           THEN /\ best_coords' = new_coords
                /\ best_diff' = new_diff
                /\ hist' = h
                /\ k' = k + 1
                /\ UNCHANGED <<page, pc, output_rows, kept, exact>>
           ELSE IF new_diff # 0
           THEN /\ best_coords' = new_coords
                /\ best_diff' = new_diff
                /\ hist' = h
                /\ pc' = "hough"
                /\ k' = 1
                /\ UNCHANGED <<page, output_rows, kept, exact>>
           ELSE /\ output_rows' = output_rows \o VerseRows(expected_verses, new_coords, page)
                /\ FinishPage(new_coords, h)
  /\ UNCHANGED <<script, auth_verses, readable, issues, csv_rows, verse_boxes,
                 fn_in, fn_out>>

\* Lines 240-254: one parameter of the Hough fallback; after the loop, the
\* issue entry when nothing matched, and the page's rows.
VerseHough ==
  /\ script = "generate_verse_data" /\ pc = "hough"
  /\ \E hcoords \in detect_ayas_hough(page, HoughParams[k], readable) :
       LET expected_verses == auth_verses[page]
           expected_count == Len(expected_verses)
           matched == Len(hcoords) = expected_count
           new_diff == HoughDiff(best_diff, matched)
           coords == HoughCoords(best_coords, hcoords, expected_count)
           over == matched \/ k = Len(HoughParams)
           h == Observe(hist, "hough", Abs(Len(hcoords) - expected_count))
       IN  IF ~over
           THEN /\ hist' = h
                /\ k' = k + 1
                /\ UNCHANGED <<page, pc, best_coords, best_diff, output_rows,
                               issues, kept, exact>>
           ELSE /\ issues' = IF new_diff # 0
                             THEN Append(issues, <<page, expected_count, Len(coords)>>)
                             ELSE issues
                /\ output_rows' = output_rows \o VerseRows(expected_verses, coords, page)
                /\ FinishPage(coords, h)
  /\ UNCHANGED <<script, auth_verses, readable, csv_rows, verse_boxes, fn_in, fn_out>>

\* Line 260: the segments of all rows.
VerseBoxes ==
  /\ script = "generate_verse_data" /\ pc = "boxes"
  /\ \E fp \in FpChoices : verse_boxes' = verse_boxes_from_app_logic(output_rows, fp)
  /\ pc' = "done"
  /\ UNCHANGED <<script, auth_verses, page, k, readable, best_coords, best_diff,
                 output_rows, issues, csv_rows, hist, kept, exact, fn_in, fn_out>>

\* ------------------------------------------------------- the two programs
Init ==
  /\ script \in {"generate_data", "generate_verse_data"}
  /\ auth_verses \in AuthChoices
  /\ page = 1
  /\ pc = "default"
  /\ k = 0
  /\ readable = TRUE
  /\ best_coords = <<>>
  /\ best_diff = 0
  /\ output_rows = <<>>
  /\ issues = <<>>
  /\ csv_rows = <<>>
  /\ verse_boxes = <<>>
  /\ hist = NoRuns
  /\ kept = <<>>
  /\ exact = <<>>
  /\ fn_in = <<>>
  /\ fn_out = <<>>

Next ==
  \/ DataDefault
  \/ DataSweep
  \/ DataHough
  \/ DataWrite
  \/ VerseDefault
  \/ VerseSweep
  \/ VerseHough
  \/ VerseBoxes

Spec == Init /\ [][Next]_vars

\* ------------------------------------------ the functions on their own
\* No program runs: the pipeline's variables stay as they are.
Idle ==
  /\ script = "none"
  /\ auth_verses = <<>>
  /\ page = 0
  /\ k = 0
  /\ readable = TRUE
  /\ best_coords = <<>>
  /\ best_diff = 0
  /\ output_rows = <<>>
  /\ issues = <<>>
  /\ csv_rows = <<>>
  /\ verse_boxes = <<>>
  /\ hist = NoRuns
  /\ kept = <<>>
  /\ exact = <<>>

RECURSIVE SeqsUpTo(_, _)
SeqsUpTo(S, n) ==
  IF n = 0 THEN {<<>>}
  ELSE LET shorter == SeqsUpTo(S, n - 1)
       IN  shorter \cup {Append(q, e) : q \in shorter, e \in S}

\* group_and_sort: point lists, duplicates included, and thresholds.
GroupPoints == (0..1) \X (0..3)

InitGroup ==
  /\ Idle
  /\ pc = "call"
  /\ fn_in \in [points : SeqsUpTo(GroupPoints, MaxPoints), g : 0..MaxG]
  /\ fn_out = <<>>

CallGroupAndSort ==
  /\ pc = "call"
  /\ fn_out' = [groups |-> RowGroups(fn_in.points, fn_in.g),
                out |-> group_and_sort(fn_in.points, fn_in.g)]
  /\ pc' = "return"
  /\ UNCHANGED <<script, auth_verses, page, k, readable, best_coords, best_diff,
                 output_rows, issues, csv_rows, verse_boxes, hist, kept, exact, fn_in>>

NextGroup == CallGroupAndSort

SpecGroup == InitGroup /\ [][NextGroup]_vars

\* normalize_coordinates: every raw x of the page class with the y at an
\* edge, and every raw y with the x at an edge (x and y are normalised
\* separately), from one pixel before -offset to the page's dimension.
PageW(p) == IF p <= 2 THEN FIRST_W ELSE STD_W
PageH(p) == IF p <= 2 THEN FIRST_H ELSE STD_H
PageOff(p) == IF p <= 2 THEN FIRST_OFF ELSE STD_OFF

\* Pages of both classes, on both sides of the class boundary.
NormPages == {1, 2, 3, 604}

RawEdges(dim, off) == {0, dim - 2 * off, dim - off, dim - 1}

InitNorm ==
  /\ Idle
  /\ pc = "call"
  /\ \E p \in NormPages :
       \/ \E x \in (-PageOff(p) - 1)..PageW(p), y \in RawEdges(PageH(p), PageOff(p)) :
            fn_in = <<p, x, y>>
       \/ \E x \in RawEdges(PageW(p), PageOff(p)), y \in (-PageOff(p) - 1)..PageH(p) :
            fn_in = <<p, x, y>>
  /\ fn_out = <<>>

CallNormalize ==
  /\ pc = "call"
  /\ fn_out' = normalize_coordinates(fn_in[1], fn_in[2], fn_in[3])
  /\ pc' = "return"
  /\ UNCHANGED <<script, auth_verses, page, k, readable, best_coords, best_diff,
                 output_rows, issues, csv_rows, verse_boxes, hist, kept, exact, fn_in>>

NextNorm == CallNormalize

SpecNorm == InitNorm /\ [][NextNorm]_vars

\* The geometry: marker sequences in reading order over two pages, with
\* coordinates inside and outside [0, 1], on and off the loops' boundaries.
GeomXs == {-10000, 30000, 60000, 70000, 120000}
GeomYs == {-10000, 2750, 30000, 35500, 38250, 41000, 50000, 120000}

\* Marker coordinates: every x on two lines, every y at two x.
GeomMarks == (GeomXs \X {30000, 50000}) \cup ({30000, 120000} \X GeomYs)

\* The n-marker sequences: verse i of surah 1, pages from 1 and never back.
RECURSIVE MarkerSeqs(_)
MarkerSeqs(n) ==
  IF n = 0 THEN {<<>>}
  ELSE {Append(q, <<1, n, p, xy[1], xy[2]>>) :
          q \in MarkerSeqs(n - 1),
          p \in (IF n = 1 THEN {1} ELSE 1..2),
          xy \in GeomMarks}

ReadingOrder(rows) ==
  \A i \in 1..(Len(rows) - 1) : rows[i][3] <= rows[i + 1][3]

InitGeom ==
  /\ Idle
  /\ pc = "call"
  /\ \E n \in 0..MaxMarkers :
       /\ fn_in \in MarkerSeqs(n)
       /\ ReadingOrder(fn_in)
  /\ fn_out = <<>>

\* get_verse_highlight_rows on the sequence as one page_data.
CallHighlightRows ==
  /\ pc = "call"
  /\ \E i \in 0..(Len(fn_in) + 1), cmp \in BOOLEAN :
       fn_out' = [fn |-> "rows", verse_index |-> i,
                  val |-> get_verse_highlight_rows(fn_in, i, [cmp |-> cmp, up |-> FALSE])]
  /\ pc' = "return"
  /\ UNCHANGED <<script, auth_verses, page, k, readable, best_coords, best_diff,
                 output_rows, issues, csv_rows, verse_boxes, hist, kept, exact, fn_in>>

CallVerseBoxes ==
  /\ pc = "call"
  /\ \E fp \in FpChoices :
       fn_out' = [fn |-> "boxes", verse_index |-> 0,
                  val |-> verse_boxes_from_app_logic(fn_in, fp)]
  /\ pc' = "return"
  /\ UNCHANGED <<script, auth_verses, page, k, readable, best_coords, best_diff,
                 output_rows, issues, csv_rows, verse_boxes, hist, kept, exact, fn_in>>

NextGeom ==
  \/ CallHighlightRows
  \/ CallVerseBoxes

SpecGeom == InitGeom /\ [][NextGeom]_vars

\* ================================================================= claims
Count(q, e) == Cardinality({i \in DOMAIN q : q[i] = e})

Returned == pc = "return"

\* C8: group_and_sort returns a permutation of its input: every point
\* occurs in the output as often as in the input, and the lengths agree,
\* for every point list (empty, with duplicates) and every threshold g >= 0.
C8_Permutation ==
  Returned /\ script = "none" /\ "points" \in DOMAIN fn_in =>
    /\ Len(fn_out.out) = Len(fn_in.points)
    /\ \A e \in GroupPoints : Count(fn_out.out, e) = Count(fn_in.points, e)

\* C8's case: a list with a duplicate point that falls into several groups.
C8_Witness ==
  /\ Returned /\ script = "none" /\ "points" \in DOMAIN fn_in
  /\ Len(fn_in.points) = MaxPoints
  /\ \E e \in GroupPoints : Count(fn_in.points, e) >= 2
  /\ Len(fn_out.groups) >= 2
  /\ fn_out.out # fn_in.points

\* The smallest y of a group: the y of the point that opened it.
AnchorY(group) == CHOOSE y \in {group[i][2] : i \in DOMAIN group} :
                    \A i \in DOMAIN group : y <= group[i][2]

\* C9: the output is the concatenation of the row groups; within a group
\* the x are non-increasing and every y is within g of the group's anchor
\* (its smallest y); the anchors' y do not decrease from group to group.
C9_RowGroups ==
  Returned /\ script = "none" /\ "points" \in DOMAIN fn_in =>
    LET groups == fn_out.groups
    IN  /\ fn_out.out = Flatten(groups)
        /\ \A n \in DOMAIN groups :
             /\ \A i \in 1..(Len(groups[n]) - 1) : groups[n][i][1] >= groups[n][i + 1][1]
             /\ \A i \in DOMAIN groups[n] : groups[n][i][2] - AnchorY(groups[n]) <= fn_in.g
        /\ \A n \in 1..(Len(groups) - 1) :
             groups[n] # <<>> /\ groups[n + 1] # <<>>
               /\ AnchorY(groups[n]) <= AnchorY(groups[n + 1])

\* C9's case: a group whose last-added point is within g of the next point
\* while its anchor is not, so that the next point opens a new group.
C9_Witness ==
  /\ Returned /\ script = "none" /\ "points" \in DOMAIN fn_in
  /\ Len(fn_out.groups) = 2
  /\ Len(fn_out.groups[1]) = 2
  /\ fn_in.g > 0
  /\ \E i \in DOMAIN fn_out.groups[1] :
       Abs(fn_out.groups[2][1][2] - fn_out.groups[1][i][2]) <= fn_in.g
  /\ fn_out.groups[1][1][1] > fn_out.groups[1][2][1]

InUnit(v) == 0 <= v /\ v <= ONE

NormCall == Returned /\ script = "none" /\ Len(fn_in) = 3 /\ Len(fn_out) = 2

\* C5 as stated: for every raw coordinate within the page's pixel bounds
\* (0 <= x < width, 0 <= y < height) both normalised values are in [0, 1].
C5_PixelBounds ==
  NormCall /\ 0 <= fn_in[2] /\ fn_in[2] < PageW(fn_in[1])
           /\ 0 <= fn_in[3] /\ fn_in[3] < PageH(fn_in[1]) =>
    InUnit(fn_out[1]) /\ InUnit(fn_out[2])

\* v is n / d rounded to 4 decimals: a 4-decimal value at most half a unit
\* of the 4th decimal away from the quotient.
IsRounded4(v, n, d) == v % 10 = 0 /\ 2 * Abs(v * d - n * ONE) <= 10 * d

\* C5, amended: for every raw coordinate with 0 <= x <= width - offset and
\* 0 <= y <= height - offset, both normalised values are in [0, 1]; the
\* result is (raw + offset) / dimension rounded to 4 decimals.
C5_CentreInPage ==
  NormCall =>
    LET p == fn_in[1]
    IN  /\ IsRounded4(fn_out[1], fn_in[2] + PageOff(p), PageW(p))
        /\ IsRounded4(fn_out[2], fn_in[3] + PageOff(p), PageH(p))
        /\ (0 <= fn_in[2] /\ fn_in[2] <= PageW(p) - PageOff(p)
            /\ 0 <= fn_in[3] /\ fn_in[3] <= PageH(p) - PageOff(p)
              => InUnit(fn_out[1]) /\ InUnit(fn_out[2]))

\* C5's case: a standard-class coordinate at the largest x of the range,
\* normalised to exactly 1.
C5_Witness ==
  /\ NormCall
  /\ fn_in[1] > 2
  /\ fn_in[2] = STD_W - STD_OFF
  /\ fn_in[3] = 0
  /\ fn_out = <<ONE, 2100>>

RowsCall == Returned /\ script = "none" /\ "fn" \in DOMAIN fn_out /\ fn_out.fn = "rows"
BoxesCall == Returned /\ script = "none" /\ "fn" \in DOMAIN fn_out /\ fn_out.fn = "boxes"

\* The verse of C2: second of its page, after a marker at (0.7, 0.3), with
\* its own marker at y = 0.41.
C2_Case ==
  /\ RowsCall
  /\ fn_out.verse_index = 2
  /\ Len(fn_in) >= 2
  /\ fn_in[1][3] = fn_in[2][3]
  /\ fn_in[1][4] = 70000 /\ fn_in[1][5] = 30000
  /\ fn_in[2][5] = 41000

\* C2 as stated: exactly 2 rows, LEFT_EDGE to 0.7 at y = 0.3 and the
\* verse's x to RIGHT_EDGE at y = 0.41, no full-width row between them.
C2_TwoRows ==
  C2_Case =>
    fn_out.val = << <<30000, LEFT_EDGE, 70000>>, <<41000, fn_in[2][4], RIGHT_EDGE>> >>

\* C2, amended: exactly 3 rows, LEFT_EDGE to 0.7 at y = 0.3, one
\* full-width row at y = 0.355, and the verse's x to RIGHT_EDGE at y = 0.41.
C2_ThreeRows ==
  C2_Case =>
    fn_out.val = << <<30000, LEFT_EDGE, 70000>>,
                    <<35500, LEFT_EDGE, RIGHT_EDGE>>,
                    <<41000, fn_in[2][4], RIGHT_EDGE>> >>

C2_Witness == C2_Case /\ Len(fn_out.val) = 3 /\ fn_in[2][4] = 30000

\* C6: every segment of verse_boxes_from_app_logic has its four
\* coordinates in [0, 1], x_start <= x_end and y_start <= y_end, whatever
\* the markers' coordinates.
C6_SegmentsInUnit ==
  BoxesCall =>
    \A i \in DOMAIN fn_out.val :
      LET b == fn_out.val[i]
      IN  /\ InUnit(b[5]) /\ InUnit(b[6]) /\ InUnit(b[7]) /\ InUnit(b[8])
          /\ b[5] <= b[7]
          /\ b[6] <= b[8]

\* C6's case: a marker right of its predecessor and outside [0, 1], below
\* a marker above the page.
C6_Witness ==
  /\ BoxesCall
  /\ Len(fn_in) = 2
  /\ fn_in[1][3] = fn_in[2][3]
  /\ fn_in[1][5] < 0
  /\ fn_in[2][4] > ONE /\ fn_in[2][5] > ONE
  /\ fn_in[2][4] > fn_in[1][4]
  /\ Len(fn_out.val) > 2

\* --------------------------------------------------- the calibration chain
Running == script \in {"generate_data", "generate_verse_data"}

RowsOfPage(rows, q) == SelectSeq(rows, LAMBDA r : r[3] = q)

\* The page loop is between two pages or past the last: hist, readable and
\* the last entries of kept and exact describe page LastPage.
Settled == Running /\ pc \notin {"sweep", "hough"} /\ page > 1
LastPage == page - 1

CountDiff(q) == Abs(Len(kept[q]) - Len(auth_verses[q]))

CarriesVerses(rows, q) ==
  LET rs == RowsOfPage(rows, q)
  IN  /\ Len(rs) = Len(auth_verses[q])
      /\ \A i \in DOMAIN rs : <<rs[i][1], rs[i][2]>> = auth_verses[q][i]

\* C1: for every finished page, whatever the calibration chain returned,
\* the rows emitted for the page are as many as its authoritative verses and
\* the i-th row carries the i-th (surah, verse) pair, in both scripts (and
\* in data.csv once written).
C1_RowCount ==
  Running =>
    /\ \A q \in DOMAIN kept : CarriesVerses(output_rows, q)
    /\ \A q \in (1..NumPages) \ DOMAIN kept : RowsOfPage(output_rows, q) = <<>>
    /\ (script = "generate_data" /\ pc = "done" =>
          \A q \in 1..NumPages : CarriesVerses(csv_rows, q))

\* C1's case: generate_data.py has written data.csv after a page kept with
\* fewer markers than verses (and not none) and a page kept with more.
C1_Witness ==
  /\ script = "generate_data" /\ pc = "done"
  /\ \E q \in DOMAIN kept : ~exact[q] /\ 0 < Len(kept[q]) /\ Len(kept[q]) < Len(auth_verses[q])
  /\ \E q \in DOMAIN kept : ~exact[q] /\ Len(kept[q]) > Len(auth_verses[q])

\* C3 as stated: with no exact match, the kept list's count difference is
\* the least over all runs of the page, Hough runs included.
C3_LeastOfAllRuns ==
  Settled /\ ~exact[LastPage] => CountDiff(LastPage) = hist.min_all

\* C3, amended: with no exact match, the kept list's count difference is
\* the least over the default-threshold run and every sweep run; a Hough
\* run's list is kept only when it matches exactly.
C3_LeastOfTemplateRuns ==
  Settled /\ ~exact[LastPage] =>
    /\ hist.template_runs = 1 + Len(SweepThresholds)
    /\ hist.hough_runs = Len(HoughParams)
    /\ CountDiff(LastPage) = hist.min_template

\* C3's case: a page without a match on which a Hough run came closer to
\* the expected count than every template run.
C3_Witness ==
  /\ Settled /\ ~exact[LastPage]
  /\ hist.min_all < hist.min_template
  /\ hist.min_all > 0

\* The coordinate rows hold for a raw marker: raw in generate_data.py,
\* normalised in generate_verse_data.py.
RowCoord(q, xy) ==
  IF script = "generate_data" THEN xy ELSE normalize_coordinates(q, xy[1], xy[2])

\* C4: on an issue page with fewer kept markers than verses, every verse
\* beyond the kept markers is at the last kept marker's coordinate, or at
\* the zero coordinate if none was kept, in both scripts alike.
C4_Placeholder ==
  Running =>
    \A q \in DOMAIN kept :
      ~exact[q] /\ Len(kept[q]) < Len(auth_verses[q]) =>
        LET rs == RowsOfPage(output_rows, q)
        IN  \A i \in (Len(kept[q]) + 1)..Len(auth_verses[q]) :
              <<rs[i][4], rs[i][5]>> =
                IF kept[q] = <<>> THEN <<0, 0>>
                ELSE RowCoord(q, kept[q][Len(kept[q])])

\* C7: no detector run follows the first run that returns the expected
\* count; a page matched by the default run had no other run; a Hough run
\* happens only after the default run and every sweep run have missed.
C7_StopsAtFirstMatch ==
  Running =>
    /\ hist.first_exact # 0 => hist.runs = hist.first_exact /\ pc \notin {"sweep", "hough"}
    /\ hist.hough_runs > 0 =>
         /\ hist.template_runs = 1 + Len(SweepThresholds)
         /\ hist.first_exact \notin 1..(1 + Len(SweepThresholds))
    /\ pc = "hough" => hist.template_runs = 1 + Len(SweepThresholds) /\ hist.first_exact = 0
    /\ hist.runs = hist.template_runs + hist.hough_runs

\* C7's case: the second Hough run is the first match, and the last run.
C7_Witness ==
  /\ Settled
  /\ hist.first_exact = 1 + Len(SweepThresholds) + 2
  /\ hist.runs = hist.first_exact

IssuesOfPage(q) == SelectSeq(issues, LAMBDA e : e[1] = q)

\* C10: a finished page is in the issues list exactly if none of its runs
\* returned the expected count, with the entry (page, expected count,
\* length of the kept list); the loop goes on to the next page; a page
\* whose raster is unreadable and whose verse list is not empty has an
\* entry with achieved count 0.
C10_Issues ==
  Running =>
    /\ \A q \in DOMAIN kept :
         IssuesOfPage(q) = IF exact[q] THEN <<>>
                           ELSE << <<q, Len(auth_verses[q]), Len(kept[q])>> >>
    /\ \A i \in DOMAIN issues : issues[i][1] \in DOMAIN kept
    /\ Len(kept) = page - 1 /\ Len(exact) = page - 1
    /\ pc \in {"default", "sweep", "hough"} <=> page <= NumPages
    /\ Settled /\ ~readable /\ auth_verses[LastPage] # <<>> =>
         IssuesOfPage(LastPage) = << <<LastPage, Len(auth_verses[LastPage]), 0>> >>

\* C10's case: page 1 was unreadable with two verses expected, its entry
\* has achieved count 0, and the loop is at page 2.
C10_Witness ==
  /\ Running /\ pc = "default" /\ page = 2
  /\ ~readable
  /\ hist.runs = 1 + Len(SweepThresholds) + Len(HoughParams)
  /\ issues = << <<1, 2, 0>> >>

\* ------------------------------------------------- single-line verses
\* The boxes that verse_boxes_from_app_logic returned for one verse.
BoxesOfVerse(boxes, verse_num) == SelectSeq(boxes, LAMBDA b : b[2] = verse_num)

\* Verse i is not first on its page and its marker is less than
\* LINE_HEIGHT from the previous marker's y.
C11_Case(i) ==
  /\ i > 1
  /\ fn_in[i - 1][3] = fn_in[i][3]
  /\ Abs(fn_in[i - 1][5] - fn_in[i][5]) < LINE_HEIGHT

\* C11: a verse that is not first on its page and whose marker y differs
\* from the previous marker's y by less than LINE_HEIGHT gets exactly one
\* segment, segment 0, with x bounds [min(x, prev.x), max(x, prev.x)] and
\* y bounds [y - 0.0275, y + 0.0275], each clamped to [0, 1].
C11_OneSegment ==
  BoxesCall =>
    \A i \in 1..Len(fn_in) :
      C11_Case(i) =>
        LET x == fn_in[i][4]
            y == fn_in[i][5]
            prev_x == fn_in[i - 1][4]
        IN  BoxesOfVerse(fn_out.val, fn_in[i][2]) =
              << <<fn_in[i][1], fn_in[i][2], fn_in[i][3], 0,
                   Max2(0, Min2(ONE, Min2(x, prev_x))),
                   Max2(0, Min2(ONE, y - 2750)),
                   Max2(0, Min2(ONE, Max2(x, prev_x))),
                   Max2(0, Min2(ONE, y + 2750))>> >>

\* C11's example: y = 0.5 for both markers, x = 0.3 after prev.x = 0.6,
\* one segment with x bounds [0.3, 0.6] and y bounds [0.4725, 0.5275].
C11_Witness ==
  /\ BoxesCall
  /\ Len(fn_in) = 2
  /\ C11_Case(2)
  /\ fn_in[1][4] = 60000 /\ fn_in[1][5] = 50000
  /\ fn_in[2][4] = 30000 /\ fn_in[2][5] = 50000
  /\ BoxesOfVerse(fn_out.val, 2) = << <<1, 2, 1, 0, 30000, 47250, 60000, 52750>> >>

\* ------------------------------------------------ the order of segments
\* The y_center values of the rows grow with the row's position.
TopFirst(rows) ==
  \A s \in 1..(Len(rows) - 1) : rows[s][1] < rows[s + 1][1]

\* C12: for every verse of every page marker sequence that
\* generate_verse_data.py hands to the geometry engine, placeholder
\* coordinates included, the verse has at least one segment, its segment
\* indices are 0, 1, ..., N-1, and the y_center of its segments is
\* strictly increasing with the segment index.
C12_TopFirst ==
  script = "generate_verse_data" /\ pc = "done" =>
    \A q \in 1..NumPages :
      LET page_data == PageData(output_rows, q)
      IN  \A i \in 1..Len(page_data), fp \in FpChoices :
            LET highlight_rows == get_verse_highlight_rows(page_data, i, fp)
                segs == Segments(page_data, i, fp)
            IN  /\ Len(highlight_rows) >= 1
                /\ Len(segs) = Len(highlight_rows)
                /\ \A s \in 1..Len(segs) :
                     /\ segs[s][4] = s - 1
                     /\ \E b \in 1..Len(verse_boxes) :
                          /\ verse_boxes[b][1] = page_data[i][1]
                          /\ verse_boxes[b][2] = page_data[i][2]
                          /\ verse_boxes[b][4] = s - 1
                /\ TopFirst(highlight_rows)

\* --------------------------------------------------- the stepping loops
\* get_verse_highlight_rows one statement at a time.  fn_in is the call,
\* page_data and verse_index; fn_out is the frame: which loop was entered,
\* where it started, current_y and the rows appended so far.  Lines 105-108
\* read the verse's marker and the one before it, so page_data holds one
\* marker or two and the verse is the last.
InitLoop ==
  /\ Idle
  /\ pc = "call"
  /\ \E n \in 1..2 :
       /\ fn_in \in [page_data : MarkerSeqs(n), verse_index : {n}]
       /\ ReadingOrder(fn_in.page_data)
  /\ fn_out = <<>>

Frame(loop, start, rows) ==
  [loop |-> loop, start |-> start, current_y |-> start, rows |-> rows]

\* Lines 105-117 and 124-134: up to the return of a single-line verse or
\* to the first test of a loop.
EnterRows ==
  /\ pc = "call"
  /\ LET page_data == fn_in.page_data
         verse_index == fn_in.verse_index
         p == page_data[verse_index][3]
         x == page_data[verse_index][4]
         y == page_data[verse_index][5]
         has_prev == verse_index > 1
         prev_verse == page_data[verse_index - 1]
     IN  IF ~has_prev \/ prev_verse[3] # p
         THEN IF y <= TOP_FIRST_LINE_Y + LINE_HEIGHT \div 2
              THEN /\ fn_out' = Frame("none", y, <<<<y, x, RIGHT_EDGE>>>>)
                   /\ pc' = "return"
              ELSE /\ fn_out' = Frame("first", TOP_FIRST_LINE_Y + LINE_HEIGHT \div 4, <<>>)
                   /\ pc' = "loop"
         ELSE \E cmp \in BOOLEAN :
                IF SameLine(prev_verse[5], y, [cmp |-> cmp, up |-> FALSE])
                THEN /\ fn_out' = Frame("none", y, <<<<y, x, prev_verse[4]>>>>)
                     /\ pc' = "return"
                ELSE /\ fn_out' = Frame("cont", prev_verse[5] + LINE_HEIGHT,
                                        <<<<prev_verse[5], LEFT_EDGE, prev_verse[4]>>>>)
                     /\ pc' = "loop"
  /\ UNCHANGED <<script, auth_verses, page, k, readable, best_coords, best_diff,
                 output_rows, issues, csv_rows, verse_boxes, hist, kept, exact, fn_in>>

LoopY == fn_in.page_data[fn_in.verse_index][5]

\* Lines 118-120 and 135-137: the test holds, one iteration.
LoopStep ==
  /\ pc = "loop"
  /\ \E cmp \in BOOLEAN : Lt(fn_out.current_y, LoopBound(LoopY), cmp)
  /\ fn_out' = [fn_out EXCEPT
                  !.rows = Append(@, <<fn_out.current_y, LEFT_EDGE, RIGHT_EDGE>>),
                  !.current_y = NextLine(@)]
  /\ UNCHANGED <<script, auth_verses, page, pc, k, readable, best_coords, best_diff,
                 output_rows, issues, csv_rows, verse_boxes, hist, kept, exact, fn_in>>

\* Lines 121-122 and 138-139: the test fails, the last row and the return.
LoopExit ==
  /\ pc = "loop"
  /\ \E cmp \in BOOLEAN : ~Lt(fn_out.current_y, LoopBound(LoopY), cmp)
  /\ fn_out' = [fn_out EXCEPT
                  !.rows = Append(@, <<LoopY, fn_in.page_data[fn_in.verse_index][4],
                                       RIGHT_EDGE>>)]
  /\ pc' = "return"
  /\ UNCHANGED <<script, auth_verses, page, k, readable, best_coords, best_diff,
                 output_rows, issues, csv_rows, verse_boxes, hist, kept, exact, fn_in>>

NextLoop ==
  \/ EnterRows
  \/ LoopStep
  \/ LoopExit

SpecLoop == InitLoop /\ [][NextLoop]_vars

\* A loop was entered: it is running or has returned.
InLoop == script = "none" /\ pc \in {"loop", "return"} /\ fn_out.loop # "none"

\* The full-width rows the loop has emitted so far.
FullRows ==
  Len(fn_out.rows) - (IF fn_out.loop = "cont" THEN 1 ELSE 0)
                   - (IF pc = "return" THEN 1 ELSE 0)

\* What both readings of the claim share: current_y has grown by
\* LINE_HEIGHT per full-width row, a running loop can always take its
\* next step, the loop has returned only with current_y no longer below
\* y - LINE_HEIGHT/2 and with the rows get_verse_highlight_rows returns,
\* and there is no full-width row when y is at or above the start.
LoopProgress ==
  /\ fn_out.current_y = fn_out.start + FullRows * LINE_HEIGHT
  /\ pc = "loop" => ENABLED NextLoop
  /\ pc = "return" =>
       /\ fn_out.current_y >= LoopY - LINE_HEIGHT \div 2
       /\ \E cmp \in BOOLEAN :
            fn_out.rows = get_verse_highlight_rows(fn_in.page_data, fn_in.verse_index,
                                                   [cmp |-> cmp, up |-> FALSE])
  /\ LoopY <= fn_out.start => FullRows = 0

=============================================================================
